---- MODULE Spec2Model ----
(***************************************************************************)
(* Torsion test stand (main.py, src/hardware): the measurement control     *)
(* core of MainWindow -- angle unwrap, hardware activation, start/stop of  *)
(* a run and the periodic measure() tick -- as a state machine.            *)
(*                                                                         *)
(* Fixed-point units (the source computes in floats):                      *)
(*   angles            whole degrees                                       *)
(*   angle voltage     1/72 V   (10 V = 720)                               *)
(*   torque            mNm      (15 Nm = 15000)                            *)
(*   torque voltage    mV       (10 V = 10000)                             *)
(***************************************************************************)
EXTENDS Integers, Sequences, FiniteSets, TLC

VARIABLES
    MOTOR_TYPE,                   \* MOTOR_TYPE of the configuration: the controller class used
    demo_mode,                    \* DEMO_MODE handed to DAQmxTask / motor controller
    is_process_running,           \* self.is_process_running
    are_instruments_initialized,  \* self.are_instruments_initialized
    project_dir,                  \* self.project_dir is non-empty
    measurement_filename,         \* self.measurement_dir and self.measurement_filename are set
    file_rows,                    \* data rows of the measurement file
    nidaqmx_task,                 \* self.nidaqmx_task (None or a DAQmxTask)
    motor_controller,             \* self.motor_controller (None or a NanotecMotorController)
    measurement_timer,            \* self.measurement_timer (None, active or stopped QTimer)
    start_time_timestamp,         \* self.start_time_timestamp is not None
    torque_data,                  \* self.torque_data (graph)
    angle_data,                   \* self.angle_data (graph)
    max_angle_value,              \* self.max_angle_value
    max_torque_value,             \* self.max_torque_value
    max_velocity_value,           \* self.max_velocity_value
    prev_angle_deg,               \* self.prev_angle_deg
    turn_counter,                 \* self.turn_counter
    angle_continuous_deg,         \* self.angle_continuous_deg
    meas_display,                 \* dmm_voltage / force_meas / distance_meas text fields
    param_text,                   \* text of the max_angle / max_torque / max_velocity fields
    setup_controls_enabled,       \* the setup widgets are enabled (set_setup_controls_enabled)
    events,                       \* calls made by the most recent handler, in order
    fed,                          \* unwrap harness: raw angles fed since the last reset
    rets,                         \* unwrap harness: values returned for them
    ramp_d,                       \* ramp harness: shaft step per tick [deg]
    ramp_k                        \* ramp harness: number of sensor readings taken

vars == <<MOTOR_TYPE, demo_mode, is_process_running, are_instruments_initialized, project_dir,
          measurement_filename, file_rows, nidaqmx_task, motor_controller,
          measurement_timer, start_time_timestamp, torque_data, angle_data,
          max_angle_value, max_torque_value, max_velocity_value,
          prev_angle_deg, turn_counter, angle_continuous_deg, meas_display,
          param_text, setup_controls_enabled, events, fed, rets, ramp_d, ramp_k>>

unwrap_vars == <<prev_angle_deg, turn_counter, angle_continuous_deg>>
param_vars == <<max_angle_value, max_torque_value, max_velocity_value, param_text>>
harness_vars == <<fed, rets, ramp_d, ramp_k>>

-----------------------------------------------------------------------------
(* Configuration constants of main.py *)

TORQUE_SENSOR_MAX_NM == 20000
TORQUE_SENSOR_MAX_VOLTAGE == 10000
TORQUE_SCALE == TORQUE_SENSOR_MAX_NM \div TORQUE_SENSOR_MAX_VOLTAGE
ANGLE_MEASUREMENT_SOURCE == "daq"
ANGLE_ENCODER_MODE == "single_turn"
ANGLE_VOLTAGE_MIN == 0
ANGLE_VOLTAGE_MAX == 720
ANGLE_MIN_DEG == 0
ANGLE_MAX_DEG == 360
ANGLE_WRAP_THRESHOLD == 180
DEFAULT_MAX_ANGLE == 360
DEFAULT_MAX_TORQUE == 15000
DEFAULT_MAX_VELOCITY == 10

None == "None"
\* Python None in a field that otherwise holds an object
NoObject == [is_none |-> TRUE]
\* result of a sensor read: a voltage, or the exception the read raised
Reading(v) == [ok |-> TRUE, value |-> v]
ReadError == [ok |-> FALSE, value |-> 0]

Abs(x) == IF x < 0 THEN -x ELSE x
Max2(a, b) == IF a >= b THEN a ELSE b
Min2(a, b) == IF a <= b THEN a ELSE b

-----------------------------------------------------------------------------
(* Bounds of the model *)

MaxSamples == 2
MaxManual == 1

\* angle-sensor voltages the DAQ may deliver: -10 deg (below range), 10 deg
\* and 340 deg
AngleVoltages == {-20, 20, 680}

\* torque-sensor voltages: -15.1 Nm, 0, 15.1 Nm
TorqueVoltages == {-7550, 0, 7550}

\* noise of the demo simulator, random.uniform(-0.1, 0.1) Nm
DemoNoise == {-100, 0, 100}

\* what the operator may type into max_angle / max_torque / max_velocity
ParameterInputs == {<<"-20", "-15", "-10">>, <<"", "abc", "10">>}

\* str() of the defaults, written into the three fields by init_parameters
DefaultParameterText == <<"360.0", "15.0", "10.0">>

-----------------------------------------------------------------------------
(* AngleUnwrapper *)

\* unwrap_angle computing the continuous angle from the turn count before the update
unwrap_angle_stale_turn(prev, turn, cont, angle_now) ==
    LET delta == angle_now - prev
        turn2 == IF delta < -ANGLE_WRAP_THRESHOLD THEN turn + 1
                 ELSE IF delta > ANGLE_WRAP_THRESHOLD THEN turn - 1
                 ELSE turn
        cont2 == angle_now + (360 * turn)
    IN [prev_angle_deg |-> angle_now, turn_counter |-> turn2,
        angle_continuous_deg |-> cont2, ret |-> cont2]

\* unwrap_angle comparing delta with <= and >=
unwrap_angle_nonstrict(prev, turn, cont, angle_now) ==
    LET delta == angle_now - prev
        turn2 == IF delta <= -ANGLE_WRAP_THRESHOLD THEN turn + 1
                 ELSE IF delta >= ANGLE_WRAP_THRESHOLD THEN turn - 1
                 ELSE turn
        cont2 == angle_now + (360 * turn2)
    IN [prev_angle_deg |-> angle_now, turn_counter |-> turn2,
        angle_continuous_deg |-> cont2, ret |-> cont2]

\* unwrap_angle without the backward-wrap branch
unwrap_angle_no_backward(prev, turn, cont, angle_now) ==
    LET delta == angle_now - prev
        turn2 == IF delta < -ANGLE_WRAP_THRESHOLD THEN turn + 1 ELSE turn
        cont2 == angle_now + (360 * turn2)
    IN [prev_angle_deg |-> angle_now, turn_counter |-> turn2,
        angle_continuous_deg |-> cont2, ret |-> cont2]

\* unwrap_angle counting a forward wrap as two turns
unwrap_angle_double_wrap(prev, turn, cont, angle_now) ==
    LET delta == angle_now - prev
        turn2 == IF delta < -ANGLE_WRAP_THRESHOLD THEN turn + 2
                 ELSE IF delta > ANGLE_WRAP_THRESHOLD THEN turn - 1
                 ELSE turn
        cont2 == angle_now + (360 * turn2)
    IN [prev_angle_deg |-> angle_now, turn_counter |-> turn2,
        angle_continuous_deg |-> cont2, ret |-> cont2]

\* MainWindow.unwrap_angle: the new unwrap state and the returned angle
unwrap_angle(prev, turn, cont, angle_now) ==
    IF ANGLE_ENCODER_MODE = "multi_turn"
    THEN [prev_angle_deg |-> prev, turn_counter |-> turn,
          angle_continuous_deg |-> cont, ret |-> angle_now]
    ELSE LET delta == angle_now - prev
             turn2 == IF delta < -ANGLE_WRAP_THRESHOLD THEN turn + 1
                      ELSE IF delta > ANGLE_WRAP_THRESHOLD THEN turn - 1
                      ELSE turn
             cont2 == angle_now + (360 * turn2)
         IN [prev_angle_deg |-> angle_now, turn_counter |-> turn2,
             angle_continuous_deg |-> cont2, ret |-> cont2]

\* reset_angle_unwrap leaving the previous raw angle alone
reset_angle_unwrap_keeps_prev ==
    [prev_angle_deg |-> prev_angle_deg, turn_counter |-> 0, angle_continuous_deg |-> 0]

\* reset_angle_unwrap leaving the turn counter alone
reset_angle_unwrap_keeps_turns ==
    [prev_angle_deg |-> 0, turn_counter |-> turn_counter,
     angle_continuous_deg |-> 360 * turn_counter]

\* MainWindow.reset_angle_unwrap
reset_angle_unwrap ==
    [prev_angle_deg |-> 0, turn_counter |-> 0, angle_continuous_deg |-> 0]

-----------------------------------------------------------------------------
(* DAQmxTask and DemoHardwareSimulator *)

\* scale_voltage_to_angle without the limitation to the valid range
scale_voltage_to_angle_unclamped(voltage) ==
    LET voltage_range == ANGLE_VOLTAGE_MAX - ANGLE_VOLTAGE_MIN
        angle_range == ANGLE_MAX_DEG - ANGLE_MIN_DEG
    IN IF voltage_range = 0 THEN ANGLE_MIN_DEG
       ELSE ((voltage - ANGLE_VOLTAGE_MIN) * angle_range) \div voltage_range
            + ANGLE_MIN_DEG

\* DAQmxTask.scale_voltage_to_angle
scale_voltage_to_angle(voltage) ==
    LET voltage_range == ANGLE_VOLTAGE_MAX - ANGLE_VOLTAGE_MIN
        angle_range == ANGLE_MAX_DEG - ANGLE_MIN_DEG
    IN IF voltage_range = 0 THEN ANGLE_MIN_DEG
       ELSE LET angle == ((voltage - ANGLE_VOLTAGE_MIN) * angle_range) \div voltage_range
                         + ANGLE_MIN_DEG
            IN Max2(ANGLE_MIN_DEG, Min2(ANGLE_MAX_DEG, angle))

\* DAQmxTask.scale_angle_to_voltage
scale_angle_to_voltage(angle) ==
    LET angle_range == ANGLE_MAX_DEG - ANGLE_MIN_DEG
        voltage_range == ANGLE_VOLTAGE_MAX - ANGLE_VOLTAGE_MIN
    IN IF angle_range = 0 THEN ANGLE_VOLTAGE_MIN
       ELSE LET normalized_angle == angle % ANGLE_MAX_DEG
            IN ((normalized_angle - ANGLE_MIN_DEG) * voltage_range) \div angle_range
               + ANGLE_VOLTAGE_MIN

\* DemoHardwareSimulator.get_simulated_torque (noise is the random.uniform draw)
get_simulated_torque(angle, noise, torque_offset) ==
    LET base_torque == angle * 50
        torque == base_torque + noise + torque_offset
    IN Max2(-20000, Min2(20000, torque))

\* DemoHardwareSimulator.get_simulated_voltage
get_simulated_voltage(torque) == torque \div TORQUE_SCALE

\* DAQmxTask.read_angle_voltage: the results a call can have
read_angle_voltage(task) ==
    IF task = NoObject THEN {ReadError}
    ELSE IF task.demo_mode THEN {Reading(scale_angle_to_voltage(task.current_angle))}
    ELSE {Reading(v) : v \in AngleVoltages} \cup {ReadError}

\* DAQmxTask.read_torque_voltage: the results a call can have
read_torque_voltage(task, current_angle) ==
    IF task.demo_mode
    THEN {Reading(get_simulated_voltage(
                    get_simulated_torque(current_angle, n, task.torque_offset))) :
            n \in DemoNoise}
    ELSE {Reading(v) : v \in TorqueVoltages} \cup {ReadError}

-----------------------------------------------------------------------------
(* Stop conditions of measure() *)

\* stop conditions comparing with > instead of >=
stop_reason_strict(angle, torque, max_angle, max_torque) ==
    LET reason1 == IF Abs(angle) > Abs(max_angle) THEN "Max Angle erreicht" ELSE None
    IN IF Abs(torque) > Abs(max_torque) THEN "Max Torque erreicht" ELSE reason1

\* stop conditions comparing the signed torque
stop_reason_signed_torque(angle, torque, max_angle, max_torque) ==
    LET reason1 == IF Abs(angle) >= Abs(max_angle) THEN "Max Angle erreicht" ELSE None
    IN IF torque >= Abs(max_torque) THEN "Max Torque erreicht" ELSE reason1

\* stop conditions reporting every crossing as an angle crossing
stop_reason_one_label(angle, torque, max_angle, max_torque) ==
    IF Abs(angle) >= Abs(max_angle) \/ Abs(torque) >= Abs(max_torque)
    THEN "Max Angle erreicht" ELSE None

\* stop conditions without the angle limit
stop_reason_torque_only(angle, torque, max_angle, max_torque) ==
    IF Abs(torque) >= Abs(max_torque) THEN "Max Torque erreicht" ELSE None

\* MainWindow.measure, "Stopbedingungen pruefen": the stop reason or None
stop_reason(angle, torque, max_angle, max_torque) ==
    LET reason1 == IF Abs(angle) >= Abs(max_angle) THEN "Max Angle erreicht" ELSE None
    IN IF Abs(torque) >= Abs(max_torque) THEN "Max Torque erreicht" ELSE reason1

-----------------------------------------------------------------------------
\* the controller classes activate_hardware can create
MotorTypes == {"nanotec", "trinamic"}

NoReading == [voltage |-> 0, torque |-> 0, angle |-> 0]

\* MainWindow.__init__ / init_class_attributes
InitWindow ==
    /\ MOTOR_TYPE \in MotorTypes
    /\ demo_mode \in BOOLEAN
    /\ is_process_running = FALSE
    /\ are_instruments_initialized = FALSE
    /\ project_dir = FALSE
    /\ measurement_filename = FALSE
    /\ file_rows = <<>>
    /\ nidaqmx_task = NoObject
    /\ motor_controller = NoObject
    /\ measurement_timer = None
    /\ start_time_timestamp = FALSE
    /\ torque_data = <<>>
    /\ angle_data = <<>>
    /\ max_angle_value = DEFAULT_MAX_ANGLE
    /\ max_torque_value = DEFAULT_MAX_TORQUE
    /\ max_velocity_value = DEFAULT_MAX_VELOCITY
    /\ prev_angle_deg = 0
    /\ turn_counter = 0
    /\ angle_continuous_deg = 0
    /\ meas_display = NoReading
    /\ param_text = DefaultParameterText
    /\ setup_controls_enabled = TRUE
    /\ events = <<>>
    /\ fed = <<>>
    /\ rets = <<>>
    /\ ramp_k = 0

\* the shipped configuration: MOTOR_TYPE = "nanotec"
Init == InitWindow /\ MOTOR_TYPE = "nanotec" /\ ramp_d = 0

-----------------------------------------------------------------------------
(* NanotecMotorController (MOTOR_TYPE = "nanotec") *)

\* NanotecMotorController.__init__ / MotorControllerBase.__init__
new_motor_controller == [is_connected |-> FALSE, is_moving |-> FALSE, velocity |-> 0]

\* outcomes of a command on the bus: the demo controller always succeeds, the
\* NanoLib calls of the real one may raise
bus_results == IF demo_mode THEN {TRUE} ELSE BOOLEAN

\* NanotecMotorController.connect
motor_connect(mc, ok) == IF ok THEN [mc EXCEPT !.is_connected = TRUE] ELSE mc

\* NanotecMotorController.move_continuous / TrinamicMotorController.move_continuous
\* (called on a connected controller): both set is_moving before the command, and
\* only the Nanotec one clears it when the command raises
motor_move_continuous(mc, velocity, ok) ==
    [mc EXCEPT !.velocity = velocity,
               !.is_moving = IF MOTOR_TYPE = "nanotec" THEN ok ELSE TRUE]

\* NanotecMotorController.stop_movement (called on a connected controller)
motor_stop_movement(mc, ok) == [mc EXCEPT !.is_moving = FALSE, !.velocity = 0]

\* NanotecMotorController.home_position / TrinamicMotorController.home_position
\* (called on a connected controller): the Trinamic one clears is_moving only in
\* demo mode
motor_home_position(mc, ok) ==
    IF ok /\ (MOTOR_TYPE = "nanotec" \/ demo_mode)
    THEN [mc EXCEPT !.is_moving = FALSE] ELSE mc

\* self.nidaqmx_task and self.nidaqmx_task.is_task_created
daq_ready ==
    IF nidaqmx_task = NoObject THEN FALSE ELSE nidaqmx_task.is_task_created

\* self.motor_controller and self.motor_controller.is_connected
motor_is_connected ==
    IF motor_controller = NoObject THEN FALSE ELSE motor_controller.is_connected

-----------------------------------------------------------------------------
(* MainWindow handlers *)

\* MainWindow.select_project_directory: the operator picks a folder
select_project_directory ==
    /\ project_dir' = TRUE
    /\ events' = <<"select_project_directory">>
    /\ UNCHANGED <<MOTOR_TYPE, demo_mode, setup_controls_enabled, is_process_running, are_instruments_initialized,
                   measurement_filename, file_rows, nidaqmx_task, motor_controller,
                   measurement_timer, start_time_timestamp, torque_data, angle_data,
                   param_vars, unwrap_vars, meas_display, harness_vars>>

\* float() of the texts the model uses, in degrees and deg/s (angle, velocity)
float_text(text) ==
    CASE text = "360.0" -> [ok |-> TRUE, value |-> 360]
      [] text = "-20" -> [ok |-> TRUE, value |-> -20]
      [] text = "15.0" -> [ok |-> TRUE, value |-> 15]
      [] text = "-15" -> [ok |-> TRUE, value |-> -15]
      [] text = "10" -> [ok |-> TRUE, value |-> 10]
      [] text = "10.0" -> [ok |-> TRUE, value |-> 10]
      [] text = "-10" -> [ok |-> TRUE, value |-> -10]
      [] text = "0" -> [ok |-> TRUE, value |-> 0]
      [] OTHER -> [ok |-> FALSE, value |-> 0]

\* MainWindow.safe_float: the parsed number, or default if float() raises;
\* unit is the number of model units in one unit of the text (1000 mNm per Nm)
safe_float(text, default, unit) ==
    IF float_text(text).ok THEN float_text(text).value * unit ELSE default

\* MainWindow.check_parameter_change, "Leeres Feld auf 0 setzen"
validated_text(text) == IF text = "" THEN "0" ELSE text

\* set_setup_controls_enabled always enabling the widgets
set_setup_controls_enabled_always(enabled) == TRUE

\* MainWindow.set_setup_controls_enabled: the enabled state of the setup widgets after
\* the call (the parameter fields and every button but Stop)
set_setup_controls_enabled(enabled) == enabled

\* MainWindow.accept_parameter past its signal-blocking check: the three GUI fields
\* are copied to the instance
accept_parameter_body(texts) ==
    /\ max_angle_value' = safe_float(texts[1], DEFAULT_MAX_ANGLE, 1)
    /\ max_torque_value' = safe_float(texts[2], DEFAULT_MAX_TORQUE, 1000)
    /\ max_velocity_value' = safe_float(texts[3], DEFAULT_MAX_VELOCITY, 1)

\* texts the three fields can hold when a signal arrives: the operator can type
\* only into enabled fields
field_texts == IF setup_controls_enabled THEN ParameterInputs \cup {param_text}
               ELSE {param_text}

\* MainWindow.check_parameter_change (editingFinished of a line edit): the text is
\* validated and the fields are taken over
check_parameter_change ==
    /\ \E p \in field_texts :
         LET texts == <<validated_text(p[1]), validated_text(p[2]), validated_text(p[3])>>
         IN /\ param_text' = texts
            /\ accept_parameter_body(texts)
    /\ events' = <<"check_parameter_change", "accept_parameter">>
    /\ UNCHANGED <<MOTOR_TYPE, demo_mode, setup_controls_enabled, is_process_running, are_instruments_initialized, project_dir,
                   measurement_filename, file_rows, nidaqmx_task, motor_controller,
                   measurement_timer, start_time_timestamp, torque_data, angle_data,
                   unwrap_vars, meas_display, harness_vars>>

\* MainWindow.accept_parameter: called by the signal of any combo box, check box or
\* line edit of a group box
accept_parameter ==
    /\ accept_parameter_body(param_text)
    /\ events' = <<"accept_parameter">>
    /\ UNCHANGED <<MOTOR_TYPE, demo_mode, setup_controls_enabled, is_process_running, are_instruments_initialized, project_dir,
                   measurement_filename, file_rows, nidaqmx_task, motor_controller,
                   measurement_timer, start_time_timestamp, torque_data, angle_data,
                   unwrap_vars, meas_display, param_text, harness_vars>>

\* activation counted as successful as soon as the DAQ task exists
activation_success_daq_only(daq_ok, motor_ok) == daq_ok

\* activate_hardware succeeding on the motor connection alone
activation_success_motor_only(daq_ok, motor_ok) == motor_ok

\* MainWindow.activate_hardware, "Erfolgs-Tracking": the value of success
activation_success(daq_ok, motor_ok) == daq_ok /\ motor_ok

\* MainWindow.activate_hardware: error_messages, one entry per failed sub-device
error_messages(daq_ok, motor_ok) ==
    (IF daq_ok THEN <<>> ELSE <<"error:daq">>)
    \o (IF motor_ok THEN <<>> ELSE <<"error:motor">>)

\* activate_hardware rejected only while a run is in progress
activate_hardware_rejected_running_only == is_process_running

\* MainWindow.activate_hardware, its guard: the hardware is already initialized
activate_hardware_rejected == are_instruments_initialized

\* MainWindow.activate_hardware
activate_hardware ==
    IF activate_hardware_rejected
    THEN /\ events' = <<"activate_hardware", "log.warning">>
         /\ UNCHANGED <<MOTOR_TYPE, demo_mode, setup_controls_enabled, is_process_running, are_instruments_initialized,
                        project_dir, measurement_filename, file_rows, nidaqmx_task,
                        motor_controller, measurement_timer, start_time_timestamp,
                        torque_data, angle_data, param_vars, unwrap_vars, meas_display,
                        harness_vars>>
    ELSE \E daq_ok \in bus_results, motor_ok \in bus_results :
         /\ nidaqmx_task' = [is_task_created |-> daq_ok, demo_mode |-> demo_mode,
                             torque_offset |-> 0, current_angle |-> 0]
         /\ motor_controller' = motor_connect(new_motor_controller, motor_ok)
         /\ are_instruments_initialized' = activation_success(daq_ok, motor_ok)
         /\ events' = <<"activate_hardware", "create_nidaqmx_task", "connect">>
                      \o (IF activation_success(daq_ok, motor_ok)
                          THEN <<"QMessageBox.information">>
                          ELSE <<"QMessageBox.critical">> \o error_messages(daq_ok, motor_ok))
         /\ UNCHANGED <<MOTOR_TYPE, demo_mode, setup_controls_enabled, is_process_running, project_dir, measurement_filename,
                        file_rows, measurement_timer, start_time_timestamp, torque_data,
                        angle_data, param_vars, unwrap_vars, meas_display, harness_vars>>

\* MainWindow.deactivate_hardware past its guard: the calls it makes
deactivate_hardware_events ==
    <<"deactivate_hardware">>
    \o (IF nidaqmx_task # NoObject THEN <<"close_nidaqmx_task">> ELSE <<>>)
    \o (IF motor_controller # NoObject THEN <<"disconnect">> ELSE <<>>)

\* MainWindow.deactivate_hardware
deactivate_hardware ==
    IF ~are_instruments_initialized
    THEN /\ events' = <<"deactivate_hardware", "log.warning">>
         /\ UNCHANGED <<MOTOR_TYPE, demo_mode, setup_controls_enabled, is_process_running, are_instruments_initialized,
                        project_dir, measurement_filename, file_rows, nidaqmx_task,
                        motor_controller, measurement_timer, start_time_timestamp,
                        torque_data, angle_data, param_vars, unwrap_vars, meas_display,
                        harness_vars>>
    ELSE /\ nidaqmx_task' = NoObject
         /\ motor_controller' = NoObject
         /\ are_instruments_initialized' = FALSE
         /\ is_process_running' = FALSE
         /\ setup_controls_enabled' = set_setup_controls_enabled(TRUE)
         /\ events' = deactivate_hardware_events
         /\ UNCHANGED <<MOTOR_TYPE, demo_mode, project_dir, measurement_filename, file_rows,
                        measurement_timer, start_time_timestamp, torque_data, angle_data,
                        param_vars, unwrap_vars, meas_display, harness_vars>>

\* stop_measurement leaving the measurement timer running
stop_measurement_body_timer_left(ok) ==
    /\ measurement_timer' = measurement_timer
    /\ motor_controller' = IF motor_is_connected
                           THEN motor_stop_movement(motor_controller, ok)
                           ELSE motor_controller
    /\ is_process_running' = FALSE
    /\ setup_controls_enabled' = set_setup_controls_enabled(TRUE)
    /\ start_time_timestamp' = FALSE

\* stop_measurement leaving the run flag set
stop_measurement_body_flag_left(ok) ==
    /\ measurement_timer' = IF measurement_timer # None THEN "stopped" ELSE None
    /\ motor_controller' = IF motor_is_connected
                           THEN motor_stop_movement(motor_controller, ok)
                           ELSE motor_controller
    /\ is_process_running' = is_process_running
    /\ setup_controls_enabled' = set_setup_controls_enabled(TRUE)
    /\ start_time_timestamp' = FALSE

\* MainWindow.stop_measurement past its guard: the fields it assigns, where ok is
\* the result of the motor's stop_movement
stop_measurement_body(ok) ==
    /\ measurement_timer' = IF measurement_timer # None THEN "stopped" ELSE None
    /\ motor_controller' = IF motor_is_connected
                           THEN motor_stop_movement(motor_controller, ok)
                           ELSE motor_controller
    /\ is_process_running' = FALSE
    /\ setup_controls_enabled' = set_setup_controls_enabled(TRUE)
    /\ start_time_timestamp' = FALSE

\* stop_measurement sending the stop command twice
stop_measurement_events_twice(ok) ==
    <<"stop_measurement">>
    \o (IF measurement_timer # None THEN <<"timer.stop">> ELSE <<>>)
    \o (IF motor_is_connected THEN <<"stop_movement", "stop_movement">> ELSE <<>>)

\* MainWindow.stop_measurement past its guard: the calls it makes
stop_measurement_events(ok) ==
    <<"stop_measurement">>
    \o (IF measurement_timer # None THEN <<"timer.stop">> ELSE <<>>)
    \o (IF motor_is_connected
        THEN <<"stop_movement">> \o (IF ok THEN <<>> ELSE <<"error:motor_stop">>)
        ELSE <<>>)

\* MainWindow.stop_measurement
stop_measurement ==
    IF ~is_process_running
    THEN /\ events' = <<"stop_measurement", "log.warning">>
         /\ UNCHANGED <<MOTOR_TYPE, demo_mode, setup_controls_enabled, is_process_running, are_instruments_initialized,
                        project_dir, measurement_filename, file_rows, nidaqmx_task,
                        motor_controller, measurement_timer, start_time_timestamp,
                        torque_data, angle_data, param_vars, unwrap_vars, meas_display,
                        harness_vars>>
    ELSE \E ok \in bus_results :
         /\ stop_measurement_body(ok)
         /\ events' = stop_measurement_events(ok)
         /\ UNCHANGED <<MOTOR_TYPE, demo_mode, are_instruments_initialized, project_dir,
                        measurement_filename, file_rows, nidaqmx_task, torque_data,
                        angle_data, param_vars, unwrap_vars, meas_display, harness_vars>>

\* closeEvent going straight to the deactivation
close_stops_measurement_skipped == FALSE

\* MainWindow.closeEvent, "Schritt 1": a run is in progress and is stopped first
close_stops_measurement == is_process_running

\* MainWindow.closeEvent: stop_measurement() if a run is in progress, then
\* deactivate_hardware() if the hardware is initialized. The window object is
\* modelled on after the call, in the state the call left.
closeEvent ==
    \E ok \in bus_results :
      LET stopping == close_stops_measurement
          deactivating == are_instruments_initialized
      IN /\ measurement_timer' = IF stopping /\ measurement_timer # None
                                 THEN "stopped" ELSE measurement_timer
         /\ start_time_timestamp' = IF stopping THEN FALSE ELSE start_time_timestamp
         /\ motor_controller' =
              IF deactivating THEN NoObject
              ELSE IF stopping /\ motor_is_connected
                   THEN motor_stop_movement(motor_controller, ok)
                   ELSE motor_controller
         /\ nidaqmx_task' = IF deactivating THEN NoObject ELSE nidaqmx_task
         /\ is_process_running' = IF stopping \/ deactivating THEN FALSE
                                  ELSE is_process_running
         /\ are_instruments_initialized' = FALSE
         /\ setup_controls_enabled' = IF stopping \/ deactivating
                                      THEN set_setup_controls_enabled(TRUE)
                                      ELSE setup_controls_enabled
         /\ events' = <<"closeEvent">>
                      \o (IF stopping THEN stop_measurement_events(ok) ELSE <<>>)
                      \o (IF deactivating THEN deactivate_hardware_events ELSE <<>>)
         /\ UNCHANGED <<MOTOR_TYPE, demo_mode, project_dir, measurement_filename, file_rows,
                        torque_data, angle_data, param_vars, unwrap_vars, meas_display,
                        harness_vars>>

\* DAQmxTask.calibrate_zero / DemoHardwareSimulator.calibrate_zero: the task after
\* the call, where noise is the random.uniform draw of the torque it reads. On the
\* real hardware the call does nothing.
calibrate_zero(task, noise) ==
    IF task.demo_mode
    THEN [task EXCEPT !.torque_offset =
            -get_simulated_torque(task.current_angle, noise, task.torque_offset)]
    ELSE task

\* home_position rejected only while the hardware is not initialized
home_position_rejected_idle_only == ~are_instruments_initialized

\* MainWindow.home_position, "Sicherheitsprüfung" 1 and 2: the call is rejected
home_position_rejected == ~are_instruments_initialized \/ is_process_running

\* MainWindow.home_position
home_position ==
    IF home_position_rejected
    THEN /\ events' = <<"home_position", "log.warning", "QMessageBox.warning">>
         /\ UNCHANGED <<MOTOR_TYPE, demo_mode, setup_controls_enabled, is_process_running, are_instruments_initialized,
                        project_dir, measurement_filename, file_rows, nidaqmx_task,
                        motor_controller, measurement_timer, start_time_timestamp,
                        torque_data, angle_data, param_vars, unwrap_vars, meas_display,
                        harness_vars>>
    ELSE \E ok \in bus_results, noise \in DemoNoise :
         LET homed == ~motor_is_connected \/ ok
             u == reset_angle_unwrap
         IN /\ motor_controller' = IF motor_is_connected
                                   THEN motor_home_position(motor_controller, ok)
                                   ELSE motor_controller
            /\ nidaqmx_task' =
                 IF homed /\ nidaqmx_task # NoObject
                 THEN calibrate_zero(nidaqmx_task, noise)
                 ELSE nidaqmx_task
            /\ prev_angle_deg' = IF homed THEN u.prev_angle_deg ELSE prev_angle_deg
            /\ turn_counter' = IF homed THEN u.turn_counter ELSE turn_counter
            /\ angle_continuous_deg' = IF homed THEN u.angle_continuous_deg
                                       ELSE angle_continuous_deg
            /\ events' = <<"home_position">>
                         \o (IF motor_is_connected THEN <<"motor.home_position">> ELSE <<>>)
                         \o (IF homed
                             THEN (IF nidaqmx_task # NoObject THEN <<"calibrate_zero">> ELSE <<>>)
                                  \o <<"reset_angle_unwrap">>
                             ELSE <<"error:homing">>)
            /\ UNCHANGED <<MOTOR_TYPE, demo_mode, setup_controls_enabled, is_process_running, are_instruments_initialized,
                           project_dir, measurement_filename, file_rows, measurement_timer,
                           start_time_timestamp, torque_data, angle_data, param_vars,
                           meas_display, harness_vars>>

\* MainWindow.measure_manual
measure_manual ==
    IF is_process_running \/ ~are_instruments_initialized \/ ~daq_ready
    THEN /\ events' = <<"measure_manual", "log.warning">>
                      \o (IF is_process_running THEN <<>> ELSE <<"QMessageBox.warning">>)
         /\ UNCHANGED <<MOTOR_TYPE, demo_mode, setup_controls_enabled, is_process_running, are_instruments_initialized,
                        project_dir, measurement_filename, file_rows, nidaqmx_task,
                        motor_controller, measurement_timer, start_time_timestamp,
                        torque_data, angle_data, param_vars, unwrap_vars, meas_display,
                        harness_vars>>
    ELSE \E ar \in read_angle_voltage(nidaqmx_task) :
         IF ~ar.ok
         THEN /\ events' = <<"measure_manual", "read_angle_voltage", "error:manual">>
              /\ UNCHANGED <<MOTOR_TYPE, demo_mode, setup_controls_enabled, is_process_running, are_instruments_initialized,
                             project_dir, measurement_filename, file_rows, nidaqmx_task,
                             motor_controller, measurement_timer, start_time_timestamp,
                             torque_data, angle_data, param_vars, unwrap_vars, meas_display,
                             harness_vars>>
         ELSE LET angle_0_360 == scale_voltage_to_angle(ar.value)
                  u == unwrap_angle(prev_angle_deg, turn_counter, angle_continuous_deg,
                                    angle_0_360)
                  angle == u.ret
              IN \E tr \in read_torque_voltage(nidaqmx_task, angle) :
                 /\ prev_angle_deg' = u.prev_angle_deg
                 /\ turn_counter' = u.turn_counter
                 /\ angle_continuous_deg' = u.angle_continuous_deg
                 /\ IF ~tr.ok
                    THEN /\ events' = <<"measure_manual", "read_angle_voltage",
                                        "scale_voltage_to_angle", "unwrap_angle",
                                        "read_torque_voltage", "error:manual">>
                         /\ UNCHANGED <<meas_display, torque_data, angle_data>>
                    ELSE LET voltage == tr.value
                             torque == voltage * TORQUE_SCALE
                         IN /\ meas_display' = [voltage |-> voltage, torque |-> torque,
                                                angle |-> angle]
                            /\ torque_data' = Append(torque_data, torque)
                            /\ angle_data' = Append(angle_data, angle)
                            /\ events' = <<"measure_manual", "read_angle_voltage",
                                           "scale_voltage_to_angle", "unwrap_angle",
                                           "read_torque_voltage", "torque_scale",
                                           "update_gui", "graph_append">>
                 /\ UNCHANGED <<MOTOR_TYPE, demo_mode, setup_controls_enabled, is_process_running, are_instruments_initialized,
                                project_dir, measurement_filename, file_rows, nidaqmx_task,
                                motor_controller, measurement_timer, start_time_timestamp,
                                param_vars, harness_vars>>

\* MainWindow.create_measurement_folder: whether the file it opens with mode "w"
\* is there already. The name is the clock time to the second and the sample name,
\* so the file exists if the previous run was started within the same second.
existing_file == IF measurement_filename THEN BOOLEAN ELSE {FALSE}

\* start_measurement going on to start the run after a failed move_continuous
run_started_despite_motor(folder_ok, motor_ok) == folder_ok

\* MainWindow.start_measurement, steps 2 and 3: whether the call gets past the two
\* returns and starts timer and run
run_started(folder_ok, motor_ok) == folder_ok /\ motor_ok

\* start_measurement rejected only while the hardware is not initialized
start_measurement_rejected_idle_only == ~are_instruments_initialized

\* start_measurement rejected only while a run is in progress
start_measurement_rejected_running_only == is_process_running

\* MainWindow.start_measurement, its two guards: the call is rejected
start_measurement_rejected == is_process_running \/ ~are_instruments_initialized

\* MainWindow.start_measurement (with create_measurement_folder,
\* setup_measurement_timer and reset_graph_data)
start_measurement ==
    IF start_measurement_rejected
    THEN /\ events' = IF is_process_running
                      THEN <<"start_measurement", "log.warning">>
                      ELSE <<"start_measurement", "log.error", "QMessageBox.critical">>
         /\ UNCHANGED <<MOTOR_TYPE, demo_mode, setup_controls_enabled, is_process_running, are_instruments_initialized,
                        project_dir, measurement_filename, file_rows, nidaqmx_task,
                        motor_controller, measurement_timer, start_time_timestamp,
                        torque_data, angle_data, param_vars, unwrap_vars, meas_display,
                        harness_vars>>
    ELSE \E io_ok \in BOOLEAN, ok \in bus_results, file_exists \in existing_file :
         LET u == reset_angle_unwrap
             folder_ok == project_dir /\ io_ok
             motor_ok == ~motor_is_connected \/ ok
             started == run_started(folder_ok, motor_ok)
         IN /\ start_time_timestamp' = TRUE
            /\ prev_angle_deg' = u.prev_angle_deg
            /\ turn_counter' = u.turn_counter
            /\ angle_continuous_deg' = u.angle_continuous_deg
            /\ measurement_filename' = (measurement_filename \/ folder_ok)
            /\ file_rows' = IF folder_ok THEN <<>> ELSE file_rows
            /\ motor_controller' =
                 IF folder_ok /\ motor_is_connected
                 THEN motor_move_continuous(motor_controller, max_velocity_value, ok)
                 ELSE motor_controller
            /\ measurement_timer' = IF started THEN "active" ELSE measurement_timer
            /\ torque_data' = IF started THEN <<>> ELSE torque_data
            /\ angle_data' = IF started THEN <<>> ELSE angle_data
            /\ is_process_running' = started
            /\ setup_controls_enabled' = IF started THEN set_setup_controls_enabled(FALSE)
                                         ELSE setup_controls_enabled
            /\ events' = <<"start_measurement", "now", "reset_angle_unwrap",
                           "create_measurement_folder">>
                         \o (IF ~folder_ok THEN <<"error:folder">>
                             ELSE (IF file_exists THEN <<"open:w:truncate">>
                                   ELSE <<"open:w:create">>)
                                  \o (IF motor_is_connected THEN <<"move_continuous">> ELSE <<>>)
                                  \o (IF motor_ok
                                      THEN <<"setup_measurement_timer", "reset_graph_data">>
                                      ELSE <<"error:motor_start">>))
            /\ UNCHANGED <<MOTOR_TYPE, demo_mode, are_instruments_initialized, project_dir,
                           nidaqmx_task, param_vars, meas_display, harness_vars>>

\* MainWindow.write_measurement_data: whether the row can be appended
write_results == IF measurement_filename THEN BOOLEAN ELSE {FALSE}

\* measure() resetting the unwrapper when the angle read fails
measure_angle_failure_resets(ar) ==
    IF ar.ok
    THEN unwrap_angle(prev_angle_deg, turn_counter, angle_continuous_deg,
                      scale_voltage_to_angle(ar.value))
    ELSE [prev_angle_deg |-> 0, turn_counter |-> 0, angle_continuous_deg |-> 0, ret |-> 0]

\* MainWindow.measure, "Winkel messen": unwrap state and angle after the angle read
measure_angle(ar) ==
    IF ar.ok
    THEN unwrap_angle(prev_angle_deg, turn_counter, angle_continuous_deg,
                      scale_voltage_to_angle(ar.value))
    ELSE [prev_angle_deg |-> prev_angle_deg, turn_counter |-> turn_counter,
          angle_continuous_deg |-> angle_continuous_deg, ret |-> 0]

\* MainWindow.measure, "Spannung vom DAQ lesen": the results the torque read can have
measure_torque_reads(angle) ==
    IF daq_ready THEN read_torque_voltage(nidaqmx_task, angle) ELSE {Reading(0)}

\* measure() evaluating the stop conditions before it writes the sample
measure_events_stop_first(ar, tr, written, reason, ok) ==
    <<"measure", "now", "read_angle_voltage">>
    \o (IF ar.ok THEN <<"scale_voltage_to_angle", "unwrap_angle">> ELSE <<"error:angle">>)
    \o (IF daq_ready THEN <<"read_torque_voltage">> ELSE <<>>)
    \o (IF tr.ok THEN <<>> ELSE <<"error:torque">>)
    \o <<"torque_scale", "graph_append", "stop_check">>
    \o (IF reason # None THEN <<reason>> \o stop_measurement_events(ok) ELSE <<>>)
    \o <<"write_measurement_data">>
    \o (IF written THEN <<>> ELSE <<"error:write">>)
    \o <<"update_gui">>

\* measure() re-entered by the next timeout before its stop check
measure_events_nested(ar, tr, written, reason, ok) ==
    <<"measure", "now", "read_angle_voltage">>
    \o (IF ar.ok THEN <<"scale_voltage_to_angle", "unwrap_angle">> ELSE <<"error:angle">>)
    \o (IF daq_ready THEN <<"read_torque_voltage">> ELSE <<>>)
    \o (IF tr.ok THEN <<>> ELSE <<"error:torque">>)
    \o <<"torque_scale", "graph_append", "write_measurement_data">>
    \o (IF written THEN <<>> ELSE <<"error:write">>)
    \o <<"update_gui", "measure", "stop_check">>
    \o (IF reason # None THEN <<reason>> \o stop_measurement_events(ok) ELSE <<>>)

\* MainWindow.measure past its guard: the calls it makes, in the order it makes them
measure_events(ar, tr, written, reason, ok) ==
    <<"measure", "now", "read_angle_voltage">>
    \o (IF ar.ok THEN <<"scale_voltage_to_angle", "unwrap_angle">> ELSE <<"error:angle">>)
    \o (IF daq_ready THEN <<"read_torque_voltage">> ELSE <<>>)
    \o (IF tr.ok THEN <<>> ELSE <<"error:torque">>)
    \o <<"torque_scale", "graph_append", "write_measurement_data">>
    \o (IF written THEN <<>> ELSE <<"error:write">>)
    \o <<"update_gui", "stop_check">>
    \o (IF reason # None THEN <<reason>> \o stop_measurement_events(ok) ELSE <<>>)

\* write_measurement_data writing the sample the display showed before the tick
data_row_last_shown(voltage, torque, angle) == meas_display

\* MainWindow.write_measurement_data: data_row, the row it writes for a sample
data_row(voltage, torque, angle) ==
    [voltage |-> voltage, torque |-> torque, angle |-> angle]

\* measure() keeping the voltage of the last display when the torque read fails
measure_voltage_stale(tr) == IF tr.ok THEN tr.value ELSE meas_display.voltage

\* MainWindow.measure, "Spannung vom DAQ lesen": voltage, preset to 0.0 and
\* overwritten only by a torque read that returned
measure_voltage(tr) == IF tr.ok THEN tr.value ELSE 0

\* MainWindow.measure past its guard, for given results of the two reads, the write
\* and the motor's stop_movement
measure_body(ar, tr, written, ok) ==
    LET u == measure_angle(ar)
        angle == u.ret
        voltage == measure_voltage(tr)
        torque == voltage * TORQUE_SCALE
        reason == stop_reason(angle, torque, max_angle_value, max_torque_value)
    IN /\ prev_angle_deg' = u.prev_angle_deg
       /\ turn_counter' = u.turn_counter
       /\ angle_continuous_deg' = u.angle_continuous_deg
       /\ torque_data' = Append(torque_data, torque)
       /\ angle_data' = Append(angle_data, angle)
       /\ file_rows' = IF written
                       THEN Append(file_rows, data_row(voltage, torque, angle))
                       ELSE file_rows
       /\ meas_display' = [voltage |-> voltage, torque |-> torque, angle |-> angle]
       /\ IF reason # None
          THEN stop_measurement_body(ok)
          ELSE UNCHANGED <<measurement_timer, motor_controller, is_process_running,
                           setup_controls_enabled, start_time_timestamp>>
       /\ events' = measure_events(ar, tr, written, reason, ok)
       /\ UNCHANGED <<MOTOR_TYPE, demo_mode, are_instruments_initialized, project_dir,
                      measurement_filename, nidaqmx_task, param_vars>>

\* measure() guarded by the timer instead of the run flag
measure_rejected_by_timer == measurement_timer # "active"

\* MainWindow.measure, its guard: the tick returns at once
measure_rejected == ~is_process_running

\* MainWindow.measure: one tick of the measurement timer
measure ==
    IF measure_rejected
    THEN /\ events' = <<"measure">>
         /\ UNCHANGED <<MOTOR_TYPE, demo_mode, setup_controls_enabled, is_process_running, are_instruments_initialized,
                        project_dir, measurement_filename, file_rows, nidaqmx_task,
                        motor_controller, measurement_timer, start_time_timestamp,
                        torque_data, angle_data, param_vars, unwrap_vars, meas_display,
                        harness_vars>>
    ELSE \E ar \in read_angle_voltage(nidaqmx_task) :
         \E tr \in measure_torque_reads(measure_angle(ar).ret), written \in write_results,
            ok \in bus_results :
            /\ measure_body(ar, tr, written, ok)
            /\ UNCHANGED harness_vars

-----------------------------------------------------------------------------
\* a run is capped at MaxSamples ticks, manual measurements at MaxManual graph points
room == Len(torque_data) < MaxSamples /\ Len(file_rows) < MaxSamples
manual_room == Len(torque_data) < MaxManual

\* the zero offset of the demo simulator drifts with every calibration
MaxDemoOffset == 100
offset_room ==
    IF nidaqmx_task = NoObject THEN TRUE
    ELSE Abs(nidaqmx_task.torque_offset) < MaxDemoOffset

Next ==
    \/ select_project_directory
    \/ check_parameter_change
    \/ accept_parameter
    \/ activate_hardware
    \/ deactivate_hardware
    \/ (offset_room /\ home_position)
    \/ (manual_room /\ measure_manual)
    \/ start_measurement
    \/ stop_measurement
    \/ (room /\ measure)
    \/ closeEvent

Spec == Init /\ [][Next]_vars

\* the program configured with MOTOR_TYPE = "trinamic"
InitTrinamic == InitWindow /\ MOTOR_TYPE = "trinamic" /\ ramp_d = 0

SpecTrinamic == InitTrinamic /\ [][Next]_vars

-----------------------------------------------------------------------------
(* The unwrapper alone: unwrap_angle and reset_angle_unwrap called in any order *)

MaxFeed == 4

\* raw angles fed to the unwrapper
RawAngles == {0, 2, 5, 10, 12, 180, 350, 358}

feed_unwrap ==
    /\ Len(fed) < MaxFeed
    /\ \E raw \in RawAngles :
         LET u == unwrap_angle(prev_angle_deg, turn_counter, angle_continuous_deg, raw)
         IN /\ prev_angle_deg' = u.prev_angle_deg
            /\ turn_counter' = u.turn_counter
            /\ angle_continuous_deg' = u.angle_continuous_deg
            /\ fed' = Append(fed, raw)
            /\ rets' = Append(rets, u.ret)
    /\ events' = <<"unwrap_angle">>
    /\ UNCHANGED <<MOTOR_TYPE, demo_mode, setup_controls_enabled, is_process_running, are_instruments_initialized, project_dir,
                   measurement_filename, file_rows, nidaqmx_task, motor_controller,
                   measurement_timer, start_time_timestamp, torque_data, angle_data,
                   param_vars, meas_display, ramp_d, ramp_k>>

reset_unwrap ==
    /\ prev_angle_deg' = reset_angle_unwrap.prev_angle_deg
    /\ turn_counter' = reset_angle_unwrap.turn_counter
    /\ angle_continuous_deg' = reset_angle_unwrap.angle_continuous_deg
    /\ fed' = <<>>
    /\ rets' = <<>>
    /\ events' = <<"reset_angle_unwrap">>
    /\ UNCHANGED <<MOTOR_TYPE, demo_mode, setup_controls_enabled, is_process_running, are_instruments_initialized, project_dir,
                   measurement_filename, file_rows, nidaqmx_task, motor_controller,
                   measurement_timer, start_time_timestamp, torque_data, angle_data,
                   param_vars, meas_display, ramp_d, ramp_k>>

NextUnwrap == feed_unwrap \/ reset_unwrap

SpecUnwrap == Init /\ [][NextUnwrap]_vars

-----------------------------------------------------------------------------
(* The unwrapper fed by a shaft that turns by a constant step per sample *)

MaxRamp == 800

\* shaft steps v*dt [deg], all of magnitude below ANGLE_WRAP_THRESHOLD
RampSteps == {-179, -90, -7, -1, 1, 7, 90, 179}

\* raw angle of the single-turn encoder when the shaft stands at angle
encoder_raw(angle) == angle % 360

feed_ramp ==
    /\ ramp_k < MaxRamp
    /\ LET u == unwrap_angle(prev_angle_deg, turn_counter, angle_continuous_deg,
                             encoder_raw(ramp_k * ramp_d))
       IN /\ prev_angle_deg' = u.prev_angle_deg
          /\ turn_counter' = u.turn_counter
          /\ angle_continuous_deg' = u.angle_continuous_deg
          /\ rets' = <<u.ret>>
    /\ ramp_k' = ramp_k + 1
    /\ events' = <<"unwrap_angle">>
    /\ UNCHANGED <<MOTOR_TYPE, demo_mode, setup_controls_enabled, is_process_running, are_instruments_initialized, project_dir,
                   measurement_filename, file_rows, nidaqmx_task, motor_controller,
                   measurement_timer, start_time_timestamp, torque_data, angle_data,
                   param_vars, meas_display, ramp_d, fed>>

InitContinuity == InitWindow /\ MOTOR_TYPE = "nanotec" /\ ramp_d \in RampSteps

SpecContinuity == InitContinuity /\ [][feed_ramp]_vars

-----------------------------------------------------------------------------
(* A run on the real hardware whose shaft advances 1 degree per tick from 0,  *)
(* with the default limits, the torque staying below its limit and nobody    *)
(* pressing Stop                                                             *)

\* torque-sensor voltage of the run: 14 Nm
RampTorqueVoltages == {7000}

start_ramp ==
    /\ start_measurement
    /\ ramp_k' = 0
    /\ UNCHANGED <<fed, rets, ramp_d>>

measure_ramp ==
    /\ is_process_running
    /\ ramp_k < MaxRamp
    /\ \E tv \in RampTorqueVoltages, ok \in bus_results :
         measure_body(Reading(scale_angle_to_voltage(encoder_raw(ramp_k * ramp_d))),
                      Reading(tv), TRUE, ok)
    /\ ramp_k' = ramp_k + 1
    /\ UNCHANGED <<fed, rets, ramp_d>>

InitOverrun == InitWindow /\ MOTOR_TYPE = "nanotec" /\ demo_mode = FALSE /\ ramp_d = 1

NextOverrun ==
    \/ select_project_directory
    \/ activate_hardware
    \/ start_ramp
    \/ measure_ramp

SpecOverrun == InitOverrun /\ [][NextOverrun]_vars

-----------------------------------------------------------------------------
(* Runs on the real hardware whose shaft advances by a constant step per tick, *)
(* with limits as the operator set them before the start, all reads            *)
(* succeeding and nobody pressing Stop. The timer delivers its ticks for as    *)
(* long as it is active, which is the weak fairness of measure_ramp.           *)

\* shaft steps of the runs: a slow forward one, a backward one, and a backward one
\* just below ANGLE_WRAP_THRESHOLD
TerminateSteps == {-179, -7, 1}

InitTerminate ==
    InitWindow /\ MOTOR_TYPE = "nanotec" /\ demo_mode = FALSE /\ ramp_d \in TerminateSteps

NextTerminate ==
    \/ select_project_directory
    \/ check_parameter_change
    \/ activate_hardware
    \/ start_ramp
    \/ measure_ramp

SpecTerminate == InitTerminate /\ [][NextTerminate]_vars /\ WF_vars(measure_ramp)

-----------------------------------------------------------------------------
(* The angle path of a tick alone: the voltage read, scaled and unwrapped *)

\* angle voltages [1/72 V] below, at and above ANGLE_VOLTAGE_MIN..ANGLE_VOLTAGE_MAX
ScaleVoltages == {-20, 0, 20, 360, 700, 718, 720, 740}

\* MainWindow.measure, "Winkel messen": fed holds the voltages read, rets the raw
\* angles handed to unwrap_angle
feed_voltage ==
    /\ Len(fed) < MaxFeed
    /\ \E angle_voltage \in ScaleVoltages :
         LET angle_0_360 == scale_voltage_to_angle(angle_voltage)
             u == unwrap_angle(prev_angle_deg, turn_counter, angle_continuous_deg,
                               angle_0_360)
         IN /\ prev_angle_deg' = u.prev_angle_deg
            /\ turn_counter' = u.turn_counter
            /\ angle_continuous_deg' = u.angle_continuous_deg
            /\ fed' = Append(fed, angle_voltage)
            /\ rets' = Append(rets, angle_0_360)
    /\ events' = <<"read_angle_voltage", "scale_voltage_to_angle", "unwrap_angle">>
    /\ UNCHANGED <<MOTOR_TYPE, demo_mode, setup_controls_enabled, is_process_running, are_instruments_initialized, project_dir,
                   measurement_filename, file_rows, nidaqmx_task, motor_controller,
                   measurement_timer, start_time_timestamp, torque_data, angle_data,
                   param_vars, meas_display, ramp_d, ramp_k>>

SpecScale == Init /\ [][feed_voltage]_vars

-----------------------------------------------------------------------------
(* Properties *)

Has(seq, e) == \E i \in DOMAIN seq : seq[i] = e
IndexOf(seq, e) == CHOOSE i \in DOMAIN seq : seq[i] = e /\ \A j \in 1..(i - 1) : seq[j] # e
\* e1 and e2, where both occur, occur in this order
Before(seq, e1, e2) == (Has(seq, e1) /\ Has(seq, e2)) => IndexOf(seq, e1) < IndexOf(seq, e2)

\* the last handler was a measure() call that found the run in progress
TickTrace(seq) == Len(seq) > 1 /\ seq[1] = "measure"
\* this step is a measure() call in state Running
RunningTick == is_process_running /\ TickTrace(events')

\* stop_measurement ran in this step: not Running, timer stopped, motor told to stop
StoppedInStep ==
    /\ ~is_process_running'
    /\ measurement_timer' = "stopped"
    /\ Has(events', "stop_movement")
\* the step left the run going and sent no stop command
ContinuedInStep ==
    /\ is_process_running'
    /\ measurement_timer' = "active"
    /\ ~Has(events', "stop_movement")

\* C1 (as stated): a tick in Running stops the run, the timer and the motor within
\* the tick if |angle| >= max_angle or |torque| >= max_torque, and otherwise leaves
\* the run going without a stop command.
C1_StopOnLimit ==
    [][RunningTick =>
         IF \/ Abs(meas_display'.angle) >= max_angle_value
            \/ Abs(meas_display'.torque) >= max_torque_value
         THEN StoppedInStep ELSE ContinuedInStep]_vars

\* C1 (amended): the same with the limits taken by magnitude: the tick stops the run
\* if and only if |angle| >= |max_angle| or |torque| >= |max_torque|.
C1_StopOnLimitMagnitude ==
    [][RunningTick =>
         IF \/ Abs(meas_display'.angle) >= Abs(max_angle_value)
            \/ Abs(meas_display'.torque) >= Abs(max_torque_value)
         THEN StoppedInStep ELSE ContinuedInStep]_vars

\* a tick has stopped a run whose limits were entered with a negative sign
C1_Witness ==
    /\ TickTrace(events) /\ Has(events, "stop_movement")
    /\ ~is_process_running /\ measurement_timer = "stopped"
    /\ max_angle_value < 0
    /\ Abs(meas_display.angle) >= Abs(max_angle_value)

\* C2: in a run with max_angle = 360 whose angle advances 1 degree per tick from 0,
\* the run is still Running after every tick with an angle below 360, it leaves
\* Running in the tick that computes 360 (the 361st), and move_continuous is sent
\* by start_measurement only.
C2_StopBeforeOverrun ==
    /\ [](/\ is_process_running => \A i \in DOMAIN angle_data : angle_data[i] < 360
          /\ (TickTrace(events) /\ ~is_process_running) =>
                /\ Len(angle_data) = 361
                /\ angle_data[361] = 360
                /\ \A i \in 1..360 : angle_data[i] = i - 1)
    /\ [][Has(events', "move_continuous") => events'[1] = "start_measurement"]_vars

C2_Witness ==
    /\ TickTrace(events) /\ ~is_process_running
    /\ max_angle_value = 360 /\ Len(angle_data) = 361 /\ turn_counter = 1

\* C3: the stop decision of a tick does not depend on the signs of angle and
\* torque; with max_torque = 15 Nm a torque of 15.1 Nm and one of -15.1 Nm both stop.
C3_SignSymmetry ==
    [][RunningTick =>
         /\ \A sa \in {1, -1}, st \in {1, -1} :
              ~is_process_running' <=>
                 (stop_reason(sa * meas_display'.angle, st * meas_display'.torque,
                              max_angle_value, max_torque_value) # None)
         /\ (max_torque_value = 15000 /\ meas_display'.torque \in {15100, -15100})
               => ~is_process_running']_vars

\* a tick that read -15.1 Nm has stopped the run
C3_Witness ==
    /\ TickTrace(events) /\ ~is_process_running
    /\ max_torque_value = 15000 /\ meas_display.torque = -15100

\* C4 (as stated): within a tick the torque voltage is read first, then the angle is
\* read, scaled and unwrapped, then the torque is scaled, then the elapsed time is
\* computed, then the sample is appended, then the stop conditions are evaluated.
C4_TickOrder ==
    TickTrace(events) =>
        /\ Before(events, "read_torque_voltage", "read_angle_voltage")
        /\ Before(events, "read_angle_voltage", "scale_voltage_to_angle")
        /\ Before(events, "scale_voltage_to_angle", "unwrap_angle")
        /\ Before(events, "unwrap_angle", "torque_scale")
        /\ Before(events, "torque_scale", "now")
        /\ Before(events, "now", "write_measurement_data")
        /\ Before(events, "write_measurement_data", "stop_check")

\* C4 (amended): within a tick the elapsed time is computed first, then the angle is
\* read, scaled and unwrapped, then the torque voltage is read and scaled, then the
\* sample is appended, and the stop conditions are evaluated last.
C4_TickOrderOfCode ==
    TickTrace(events) =>
        /\ Before(events, "now", "read_angle_voltage")
        /\ Before(events, "read_angle_voltage", "scale_voltage_to_angle")
        /\ Before(events, "scale_voltage_to_angle", "unwrap_angle")
        /\ Before(events, "unwrap_angle", "read_torque_voltage")
        /\ Before(events, "read_angle_voltage", "read_torque_voltage")
        /\ Before(events, "read_torque_voltage", "torque_scale")
        /\ Before(events, "torque_scale", "write_measurement_data")
        /\ Before(events, "write_measurement_data", "stop_check")
        /\ Before(events, "stop_check", "stop_measurement")
        /\ Has(events, "now") /\ Has(events, "read_angle_voltage")
        /\ Has(events, "torque_scale") /\ Has(events, "write_measurement_data")
        /\ events[Len(events)] = "stop_check" \/ Has(events, "stop_measurement")

\* a tick that made every call: both reads succeeded and the run was stopped
C4_Witness ==
    /\ TickTrace(events)
    /\ Has(events, "unwrap_angle") /\ Has(events, "read_torque_voltage")
    /\ ~Has(events, "error:torque") /\ Has(events, "stop_movement")

\* C5: the unwrap state always satisfies
\* continuous_angle = previous_raw_angle + 360 * turn_count.
C5_UnwrapInvariant == angle_continuous_deg = prev_angle_deg + 360 * turn_counter

\* a tick has unwrapped across a wrap
C5_Witness == TickTrace(events) /\ Has(events, "unwrap_angle") /\ turn_counter # 0

\* C6: unwrap(raw) with delta = raw - previous_raw_angle adds 1 to turn_count if
\* delta < -180, subtracts 1 if delta > 180 and leaves it otherwise; it returns
\* raw + 360 * turn_count and stores raw as previous_raw_angle.
C6_UnwrapStep ==
    [][Len(fed') = Len(fed) + 1 =>
         LET raw == fed'[Len(fed')]
             delta == raw - prev_angle_deg
         IN /\ turn_counter' = turn_counter + (IF delta < -180 THEN 1
                                               ELSE IF delta > 180 THEN -1 ELSE 0)
            /\ rets'[Len(rets')] = raw + 360 * turn_counter'
            /\ prev_angle_deg' = raw]_vars

\* an unwrap with delta = +180 exactly has left the turn count alone
C6_Witness ==
    /\ Len(fed) >= 2
    /\ fed[Len(fed)] - fed[Len(fed) - 1] = 180
    /\ rets[Len(fed)] - fed[Len(fed)] = rets[Len(fed) - 1] - fed[Len(fed) - 1]
    /\ turn_counter # 0

\* C7: a freshly reset unwrapper fed 350, 358, 5, 12 returns 350, 358, 365, 372.
C7_WrapRoundTrip == (fed = <<350, 358, 5, 12>>) => (rets = <<350, 358, 365, 372>>)

\* C8: a freshly reset unwrapper fed 10, 2, 358, 350 returns 10, 2, -2, -10.
C8_ReverseWrap ==
    (fed = <<10, 2, 358, 350>>) => (rets = <<10, 2, -2, -10>> /\ turn_counter = -1)

C8_Witness == fed = <<10, 2, 358, 350>> /\ Len(rets) = 4

\* C9: reset() followed by unwrap(r) returns r and leaves turn_count at 0.
C9_ResetThenUnwrap == (Len(fed) = 1) => (rets = <<fed[1]>> /\ turn_counter = 0)

\* C10: a freshly reset unwrapper fed the raw angles (k*d) mod 360, k = 0, 1, 2, ...,
\* returns k*d for the k-th of them, and so values strictly monotonic in the sign of d.
C10_Continuity ==
    /\ [](ramp_k > 0 => rets = <<(ramp_k - 1) * ramp_d>>)
    /\ [][(ramp_k > 0 /\ ramp_k' = ramp_k + 1) =>
            IF ramp_d > 0 THEN rets'[1] > rets[1] ELSE rets'[1] < rets[1]]_vars

\* a shaft turning backwards has passed 0 degrees more than once
C10_Witness == ramp_d < 0 /\ turn_counter < -1 /\ rets = <<(ramp_k - 1) * ramp_d>>

-----------------------------------------------------------------------------
(* Start, stop, activation and parameters *)

Count(seq, e) == Cardinality({i \in DOMAIN seq : seq[i] = e})
\* the handler whose calls events' holds sent a command to the motor
MotorCommanded ==
    \/ Has(events', "move_continuous")
    \/ Has(events', "stop_movement")
    \/ Has(events', "motor.home_position")
\* this step is a start_measurement call that started a run
StartedInStep == ~is_process_running /\ is_process_running'

\* C11: every start_measurement that starts a run resets the unwrap state to
\* (0, 0, 0), sends move_continuous exactly once with the velocity current at the
\* start and ends Running; and whenever a run is at its first tick the turn count is
\* 0, whatever earlier runs, manual measurements or reactivations left behind.
C11_StartResets ==
    /\ [][StartedInStep =>
            /\ events'[1] = "start_measurement"
            /\ prev_angle_deg' = 0 /\ turn_counter' = 0 /\ angle_continuous_deg' = 0
            /\ Count(events', "move_continuous") = 1
            /\ motor_controller'.velocity = max_velocity_value
            /\ motor_controller'.is_moving]_vars
    /\ []((is_process_running /\ torque_data = <<>>) =>
            (prev_angle_deg = 0 /\ turn_counter = 0 /\ angle_continuous_deg = 0))

\* a run has started with velocity -10 after an earlier measurement had left the
\* unwrapper one turn back
C11_Witness ==
    /\ is_process_running /\ events[1] = "start_measurement"
    /\ turn_counter = 0 /\ meas_display.angle < 0
    /\ motor_controller.velocity = -10

\* C12 (as stated): start_measurement called while Running leaves the state Running
\* and unchanged, and the call returns InvalidTransitionError.
C12_DoubleStartError ==
    [][(is_process_running /\ events'[1] = "start_measurement") =>
         /\ is_process_running'
         /\ UNCHANGED <<are_instruments_initialized, motor_controller, measurement_timer,
                        start_time_timestamp, unwrap_vars, param_vars>>
         /\ Has(events', "InvalidTransitionError")]_vars

\* C12 (amended): start_measurement called while Running leaves the state Running
\* and unchanged; the call reports nothing to its caller, it only logs a warning.
C12_DoubleStartIgnored ==
    [][(is_process_running /\ events'[1] = "start_measurement") =>
         /\ is_process_running'
         /\ UNCHANGED <<are_instruments_initialized, motor_controller, measurement_timer,
                        start_time_timestamp, unwrap_vars, param_vars>>
         /\ events' = <<"start_measurement", "log.warning">>]_vars

\* start_measurement has been called during a run
C12_Witness == is_process_running /\ events = <<"start_measurement", "log.warning">>

\* this step is a call the state machine rejects
RejectedCall ==
    \/ events'[1] = "start_measurement" /\ (is_process_running \/ ~are_instruments_initialized)
    \/ events'[1] = "stop_measurement" /\ ~is_process_running
    \/ events'[1] = "home_position" /\ (is_process_running \/ ~are_instruments_initialized)

\* C13: start_measurement while Running or Idle, stop_measurement while not Running
\* and home_position while Running or Idle leave the unwrap state, the start time,
\* the timer, the parameters and the state alone and send nothing to the motor.
C13_RejectedNoEffect ==
    [][RejectedCall =>
         /\ UNCHANGED <<unwrap_vars, start_time_timestamp, measurement_timer, param_vars,
                        is_process_running, are_instruments_initialized,
                        motor_controller, nidaqmx_task>>
         /\ ~MotorCommanded]_vars

\* home_position has been rejected during a run whose unwrapper had counted a turn
C13_Witness ==
    /\ is_process_running /\ events[1] = "home_position"
    /\ turn_counter # 0 /\ start_time_timestamp

\* C14: activate_hardware called in Idle ends HardwareActive exactly if the DAQ task
\* was created and the motor's connect() returned true; otherwise the state stays
\* Idle and the error list names exactly the sub-devices that failed.
C14_ActivationOutcome ==
    [][(~are_instruments_initialized /\ events'[1] = "activate_hardware") =>
         /\ are_instruments_initialized' <=> (daq_ready' /\ motor_is_connected')
         /\ Has(events', "error:daq") <=> ~daq_ready'
         /\ Has(events', "error:motor") <=> ~motor_is_connected']_vars

\* an activation has failed on both devices and has listed both
C14_Witness ==
    /\ Has(events, "error:daq") /\ Has(events, "error:motor")
    /\ events[1] = "activate_hardware" /\ ~are_instruments_initialized

\* C15: in Idle no connection is open: neither is the DAQ task created nor the
\* motor controller connected, also after an activation that failed on one device.
C15_FailedActivationRollsBack ==
    ~are_instruments_initialized => (~daq_ready /\ ~motor_is_connected)

\* C16: stop_measurement in Running, called by the operator or by a tick, sends
\* stop_movement exactly once and ends in HardwareActive: not Running, hardware
\* still initialized, DAQ task and motor still connected.
C16_StopOnce ==
    [][(is_process_running /\ Has(events', "stop_measurement")
        /\ events'[1] # "closeEvent") =>
         /\ Count(events', "stop_movement") = 1
         /\ ~is_process_running'
         /\ are_instruments_initialized' /\ daq_ready' /\ motor_is_connected'
         /\ ~motor_controller'.is_moving]_vars

\* the operator has stopped a run
C16_Witness ==
    /\ Has(events, "stop_movement") /\ events[1] = "stop_measurement"
    /\ ~is_process_running /\ are_instruments_initialized /\ measurement_timer = "stopped"

\* C17: deactivate_hardware called while Running sends stop_movement and stops the
\* timer before it disconnects the motor.
C17_DeactivateStopsFirst ==
    [][(is_process_running /\ events'[1] = "deactivate_hardware") =>
         /\ Has(events', "stop_movement")
         /\ Before(events', "stop_movement", "disconnect")
         /\ measurement_timer' # "active"]_vars

\* C18: a stop_movement that failed is retried, or the state machine is forced to
\* Idle; no handler ends in HardwareActive with the failed stop left at that.
C18_FailedStopEscalates ==
    Has(events, "error:motor_stop") =>
        (Count(events, "stop_movement") > 1 \/ ~are_instruments_initialized)

\* C19: a tick in Running whose write_measurement_data failed stops the run: the
\* state is not Running and stop_movement was sent when the tick returns.
C19_WriteFailureStops ==
    [][(RunningTick /\ Has(events', "error:write")) =>
         (~is_process_running' /\ Has(events', "stop_movement"))]_vars

\* C20: no step taken in Running changes max_angle, max_torque or the velocity, and
\* neither does the start of a run, so every tick compares with the limits of the
\* run's start, whatever check_parameter_change / accept_parameter signals arrive.
C20_ParametersFrozen ==
    [][(is_process_running \/ is_process_running') =>
         UNCHANGED <<max_angle_value, max_torque_value, max_velocity_value>>]_vars

\* accept_parameter has run during a run that was started with edited limits
C20_Witness ==
    /\ is_process_running /\ ~setup_controls_enabled
    /\ events = <<"accept_parameter">> /\ max_angle_value = -20

-----------------------------------------------------------------------------
(* Ticks outside a run, failed reads, homing, stop reasons and the data file *)

\* C21: a measure() call that finds no run in progress does nothing: it reads no
\* sensor and makes no call at all, and the unwrap state, the data file, the graph,
\* the display, the motor, the timer and the state are as they were.
C21_IdleTickNoEffect ==
    [][(~is_process_running /\ events'[1] = "measure") =>
         /\ events' = <<"measure">>
         /\ UNCHANGED <<is_process_running, are_instruments_initialized, unwrap_vars,
                        file_rows, measurement_filename, torque_data, angle_data,
                        meas_display, motor_controller, nidaqmx_task,
                        measurement_timer, start_time_timestamp, param_vars,
                        setup_controls_enabled, project_dir>>]_vars

\* a tick has arrived from a timer that was left running by a deactivation in the
\* middle of a run, after the run had written a row
C21_Witness ==
    /\ events = <<"measure">> /\ ~is_process_running
    /\ measurement_timer = "active" /\ Len(file_rows) >= 1

\* C22: a tick in Running whose torque read failed goes on with voltage 0.0: it
\* appends the sample with torque 0 to the graph and, unless the write fails as
\* well, to the data file, evaluates the stop conditions, and leaves the run in
\* progress unless the angle limit is reached or the torque limit is zero.
C22_TorqueFailureContinues ==
    [][(RunningTick /\ Has(events', "error:torque")) =>
         /\ meas_display'.voltage = 0 /\ meas_display'.torque = 0
         /\ torque_data' = Append(torque_data, 0)
         /\ angle_data' = Append(angle_data, meas_display'.angle)
         /\ Has(events', "write_measurement_data")
         /\ (~Has(events', "error:write") =>
               file_rows' = Append(file_rows, [voltage |-> 0, torque |-> 0,
                                               angle |-> meas_display'.angle]))
         /\ Has(events', "stop_check")
         /\ is_process_running' <=>
               ~(Abs(meas_display'.angle) >= Abs(max_angle_value) \/ max_torque_value = 0)]_vars

\* a tick whose torque read failed has written its sample with voltage 0 at a
\* non-zero angle, and the run goes on
C22_Witness ==
    /\ Has(events, "error:torque") /\ TickTrace(events)
    /\ is_process_running /\ Len(file_rows) >= 1
    /\ file_rows[Len(file_rows)].voltage = 0 /\ file_rows[Len(file_rows)].angle # 0

\* C23: stop_measurement called by the operator during a run ends not Running with
\* the timer stopped, and a tick delivered after that, before the next start,
\* appends nothing to the data file or the graph, leaves the unwrap state, the
\* display and the motor alone and sends no command to the motor.
C23_NoTickAfterStop ==
    /\ [][(is_process_running /\ events'[1] = "stop_measurement") =>
            (~is_process_running' /\ measurement_timer' = "stopped")]_vars
    /\ [][(~is_process_running /\ measurement_timer = "stopped" /\ events'[1] = "measure") =>
            /\ UNCHANGED <<file_rows, torque_data, angle_data, unwrap_vars,
                           meas_display, motor_controller, measurement_timer>>
            /\ ~MotorCommanded
            /\ ~is_process_running']_vars

\* a tick has been delivered after a run was stopped whose one sample, not at a
\* limit, had left the unwrapper one turn back
C23_Witness ==
    /\ events = <<"measure">> /\ ~is_process_running /\ measurement_timer = "stopped"
    /\ Len(file_rows) = 1 /\ turn_counter # 0
    /\ Abs(meas_display.angle) < Abs(max_angle_value)
    /\ Abs(meas_display.torque) < Abs(max_torque_value)

\* calls that only activate_hardware and deactivate_hardware make
ActivationCalls ==
    {"activate_hardware", "deactivate_hardware", "create_nidaqmx_task", "connect",
     "close_nidaqmx_task", "disconnect"}

\* C24: a tick runs from its entry to the end of its stop check as one
\* uninterrupted handler: between the entry and the stop check no other tick is
\* entered, the stop check is the last thing before the tick returns or stops the
\* run, and no call of an activation or deactivation occurs in it, so the DAQ task,
\* the motor connection and the hardware flag are the same after it as before.
C24_TicksSequential ==
    [][RunningTick =>
         /\ Count(events', "measure") = 1
         /\ Count(events', "stop_check") = 1
         /\ \A i \in DOMAIN events' :
               /\ events'[i] \notin ActivationCalls
               /\ (i > IndexOf(events', "stop_check")) =>
                     (events'[i] \in {"Max Angle erreicht", "Max Torque erreicht"}
                      \/ Has(stop_measurement_events(TRUE), events'[i])
                      \/ events'[i] = "error:motor_stop")
         /\ UNCHANGED <<are_instruments_initialized, nidaqmx_task>>
         /\ motor_is_connected' = motor_is_connected]_vars

\* a second tick of a run has returned with the run still in progress
C24_Witness ==
    /\ TickTrace(events) /\ is_process_running
    /\ Len(torque_data) = 2 /\ events[Len(events)] = "stop_check"

\* C25: home_position called while Running is rejected: the motor gets no home
\* command (and no other), the torque zero is not calibrated, the unwrap state is
\* unchanged and the run goes on.
C25_HomeRejectedWhileRunning ==
    [][(is_process_running /\ events'[1] = "home_position") =>
         /\ ~Has(events', "motor.home_position")
         /\ ~Has(events', "calibrate_zero")
         /\ ~Has(events', "reset_angle_unwrap")
         /\ UNCHANGED <<unwrap_vars, nidaqmx_task, motor_controller,
                        is_process_running, measurement_timer>>]_vars

\* home_position has been rejected while the motor of a run was moving, after the
\* run had taken a sample
C25_Witness ==
    /\ is_process_running
    /\ events = <<"home_position", "log.warning", "QMessageBox.warning">>
    /\ motor_controller.is_moving /\ Len(angle_data) >= 1

\* C26 (as stated): whenever home_position has commanded the motor to home, whether
\* the motor reported success or failure, the unwrap state is (0, 0, 0) when
\* home_position returns.
C26_HomingResets ==
    [][Has(events', "motor.home_position") =>
         (prev_angle_deg' = 0 /\ turn_counter' = 0 /\ angle_continuous_deg' = 0)]_vars

\* C26 (amended): when home_position has commanded the motor to home and the motor
\* reported success, the torque zero is calibrated and the unwrap state is (0, 0, 0)
\* when home_position returns; when the motor reported failure, home_position
\* returns after the error dialog with the unwrap state and the torque zero as
\* they were.
C26_HomingResetsOnSuccess ==
    [][Has(events', "motor.home_position") =>
         IF ~Has(events', "error:homing")
         THEN /\ prev_angle_deg' = 0 /\ turn_counter' = 0 /\ angle_continuous_deg' = 0
              /\ Before(events', "motor.home_position", "reset_angle_unwrap")
              /\ Has(events', "reset_angle_unwrap") /\ Has(events', "calibrate_zero")
         ELSE /\ UNCHANGED <<unwrap_vars, nidaqmx_task, motor_controller>>
              /\ ~Has(events', "reset_angle_unwrap")
              /\ ~Has(events', "calibrate_zero")]_vars

\* the motor has been homed after a measurement at a non-zero angle, and the unwrap
\* state is back at zero
C26_Witness ==
    /\ Has(events, "motor.home_position") /\ Has(events, "reset_angle_unwrap")
    /\ prev_angle_deg = 0 /\ turn_counter = 0 /\ angle_continuous_deg = 0
    /\ meas_display.angle # 0

\* the stop reasons measure() can report
StopReasons == {"Max Angle erreicht", "Max Torque erreicht"}
ReasonsIn(seq) == {i \in DOMAIN seq : seq[i] \in StopReasons}

\* C27: a tick that stops the run reports exactly one stop reason, before it calls
\* stop_measurement, and the reason names a limit that this tick's sample has
\* crossed (the torque limit when both are crossed); a stop_measurement called by
\* the operator reports no stop reason.
C27_StopReason ==
    /\ [][(RunningTick /\ ~is_process_running') =>
            /\ Cardinality(ReasonsIn(events')) = 1
            /\ Count(events', "stop_measurement") = 1
            /\ \A i \in ReasonsIn(events') : i < IndexOf(events', "stop_measurement")
            /\ Has(events', "Max Torque erreicht") <=>
                  Abs(meas_display'.torque) >= Abs(max_torque_value)
            /\ Has(events', "Max Angle erreicht") =>
                  Abs(meas_display'.angle) >= Abs(max_angle_value)]_vars
    /\ [][(events'[1] = "stop_measurement") => ReasonsIn(events') = {}]_vars

\* a tick has stopped the run on a sample that crossed both limits, and has
\* reported the torque limit
C27_Witness ==
    /\ Has(events, "Max Torque erreicht") /\ TickTrace(events)
    /\ ~is_process_running
    /\ Abs(meas_display.angle) >= Abs(max_angle_value) /\ meas_display.angle # 0

\* C28: activate_hardware called while the hardware is initialized (HardwareActive
\* or Running) changes nothing and creates neither a DAQ task nor a motor
\* connection; deactivate_hardware called in Idle changes nothing; and
\* deactivate_hardware called in HardwareActive closes the DAQ task, disconnects
\* the motor, drops both handles and ends in Idle.
C28_ActivationIdempotent ==
    /\ [][((are_instruments_initialized /\ events'[1] = "activate_hardware")
            \/ (~are_instruments_initialized /\ events'[1] = "deactivate_hardware")) =>
            /\ UNCHANGED <<nidaqmx_task, motor_controller, are_instruments_initialized,
                           is_process_running, measurement_timer, unwrap_vars,
                           param_vars, file_rows, torque_data, angle_data,
                           meas_display, setup_controls_enabled, start_time_timestamp>>
            /\ \A i \in DOMAIN events' : events'[i] \notin
                  {"create_nidaqmx_task", "connect", "close_nidaqmx_task", "disconnect"}]_vars
    /\ [][(are_instruments_initialized /\ ~is_process_running
            /\ events'[1] = "deactivate_hardware") =>
            /\ Count(events', "close_nidaqmx_task") = 1
            /\ Count(events', "disconnect") = 1
            /\ nidaqmx_task' = NoObject /\ motor_controller' = NoObject
            /\ ~are_instruments_initialized' /\ ~is_process_running']_vars

\* activate_hardware has been called during a run and has been turned away
C28_Witness ==
    /\ events = <<"activate_hardware", "log.warning">>
    /\ is_process_running /\ daq_ready /\ motor_is_connected

\* C29 (as stated): every raw angle that scale_voltage_to_angle returns and the tick
\* hands to unwrap_angle is >= 0 and strictly below 360, for voltages inside, at
\* and outside ANGLE_VOLTAGE_MIN..ANGLE_VOLTAGE_MAX.
C29_RawAngleHalfOpen ==
    \A i \in DOMAIN rets : rets[i] >= 0 /\ rets[i] < 360

\* C29 (amended): every raw angle that scale_voltage_to_angle returns and the tick
\* hands to unwrap_angle lies in the closed range 0..360: it is 0 for voltages at or
\* below ANGLE_VOLTAGE_MIN, 360 exactly for voltages at or above ANGLE_VOLTAGE_MAX,
\* and strictly between bounds otherwise; the value the unwrapper keeps as previous
\* raw angle is the one it was handed.
C29_RawAngleClosedRange ==
    /\ Len(fed) = Len(rets)
    /\ \A i \in DOMAIN rets :
         /\ rets[i] >= ANGLE_MIN_DEG /\ rets[i] <= ANGLE_MAX_DEG
         /\ (rets[i] = ANGLE_MAX_DEG) <=> (fed[i] >= ANGLE_VOLTAGE_MAX)
         /\ (fed[i] <= ANGLE_VOLTAGE_MIN) => (rets[i] = ANGLE_MIN_DEG)
    /\ (rets # <<>>) => (prev_angle_deg = rets[Len(rets)])

\* a voltage above ANGLE_VOLTAGE_MAX has been scaled to 360 and handed to the
\* unwrapper after a raw angle of 350
C29_Witness ==
    /\ Len(rets) >= 2
    /\ fed[Len(fed)] > ANGLE_VOLTAGE_MAX /\ rets[Len(rets)] = 360
    /\ rets[Len(rets) - 1] = 350 /\ prev_angle_deg = 360

IsPrefix(s1, s2) == Len(s1) <= Len(s2) /\ \A i \in DOMAIN s1 : s1[i] = s2[i]

\* C30: the data file only ever grows by suffix: every step leaves the rows written
\* so far in place, whether it is a tick, a stop, a deactivation or a new start
\* with the same sample name; a start may only open a new, empty file beside the
\* old one.
C30_AppendOnly ==
    [][\/ IsPrefix(file_rows, file_rows')
       \/ Has(events', "open:w:create") /\ file_rows' = <<>>]_vars

-----------------------------------------------------------------------------
(* Calibration, failed starts, closing, state invariants and termination *)

\* C31: calibrate_zero establishes a zero offset and is idempotent: after a
\* calibration the torque of the load it was calibrated at (the simulator's load
\* without noise) reads zero, and a calibration that follows a calibration
\* directly, with no change of load between them, leaves the stored offset as the
\* first one set it.
C31_CalibrateZeroIdempotent ==
    [][Has(events', "calibrate_zero") =>
         /\ get_simulated_torque(nidaqmx_task'.current_angle, 0,
                                 nidaqmx_task'.torque_offset) = 0
         /\ Has(events, "calibrate_zero") =>
               nidaqmx_task'.torque_offset = nidaqmx_task.torque_offset]_vars

\* C32: every tick in Running calls write_measurement_data exactly once, after the
\* graph append and before the stop check, with the sample of this tick, so a
\* tick that stops the run has written the sample that crossed the limit; and
\* every tick adds one point to the run's graph, so that during a run the rows in
\* the file never outnumber the ticks of the run and fall short of them only by
\* writes that failed.
C32_OneSamplePerTick ==
    /\ [][RunningTick =>
            /\ Count(events', "write_measurement_data") = 1
            /\ IndexOf(events', "write_measurement_data") < IndexOf(events', "stop_check")
            /\ Len(torque_data') = Len(torque_data) + 1
            /\ IF Has(events', "error:write")
               THEN file_rows' = file_rows
               ELSE file_rows' = Append(file_rows, meas_display')
            /\ (~is_process_running' /\ ~Has(events', "error:write")) =>
                  LET row == file_rows'[Len(file_rows')]
                  IN \/ Abs(row.angle) >= Abs(max_angle_value)
                     \/ Abs(row.torque) >= Abs(max_torque_value)]_vars
    /\ [](is_process_running => Len(file_rows) <= Len(torque_data))

\* the second tick of a run has stopped it at the angle limit and its sample is the
\* second row of the file
C32_Witness ==
    /\ Has(events, "Max Angle erreicht") /\ TickTrace(events)
    /\ ~is_process_running /\ Len(file_rows) = 2
    /\ file_rows[2] = meas_display /\ file_rows[2].angle # 0
    /\ Abs(file_rows[2].angle) >= Abs(max_angle_value)

\* C33: a start_measurement that got past its guards and then failed, because the
\* measurement folder or file could not be created or because move_continuous
\* returned false, starts no run: the state stays HardwareActive, no timer is set
\* up, the controls stay enabled, and when the folder creation failed no
\* move_continuous was sent.
C33_FailedStartNoRun ==
    [][(Has(events', "error:folder") \/ Has(events', "error:motor_start")) =>
         /\ events'[1] = "start_measurement"
         /\ ~is_process_running' /\ are_instruments_initialized'
         /\ UNCHANGED <<measurement_timer, setup_controls_enabled, torque_data, angle_data>>
         /\ ~Has(events', "setup_measurement_timer")
         /\ Has(events', "error:folder") => ~Has(events', "move_continuous")
         /\ Has(events', "error:motor_start") =>
               (Count(events', "move_continuous") = 1 /\ ~Has(events', "error:folder"))]_vars

\* a start has failed at move_continuous after the data file had been created, and
\* the state is HardwareActive
C33_Witness ==
    /\ Has(events, "error:motor_start") /\ Has(events, "open:w:create")
    /\ ~is_process_running /\ are_instruments_initialized
    /\ measurement_timer # "active"

\* C34: closeEvent ends with is_process_running and are_instruments_initialized
\* both false from whatever state it is called in; called while Running it stops
\* the timer and sends stop_movement (stop_measurement) strictly before it closes
\* the DAQ task and disconnects the motor (deactivate_hardware), and it leaves the
\* timer stopped and both handles dropped.
C34_CloseStopsFirst ==
    /\ [][(events'[1] = "closeEvent") =>
            (~is_process_running' /\ ~are_instruments_initialized')]_vars
    /\ [][(is_process_running /\ events'[1] = "closeEvent") =>
            /\ Count(events', "stop_movement") = 1 /\ Count(events', "timer.stop") = 1
            /\ Count(events', "close_nidaqmx_task") = 1 /\ Count(events', "disconnect") = 1
            /\ IndexOf(events', "stop_movement") < IndexOf(events', "close_nidaqmx_task")
            /\ IndexOf(events', "stop_movement") < IndexOf(events', "disconnect")
            /\ IndexOf(events', "timer.stop") < IndexOf(events', "close_nidaqmx_task")
            /\ IndexOf(events', "stop_measurement") < IndexOf(events', "deactivate_hardware")
            /\ measurement_timer' = "stopped"
            /\ nidaqmx_task' = NoObject /\ motor_controller' = NoObject]_vars

\* the window has been closed during a run that had written a row
C34_Witness ==
    /\ Has(events, "stop_movement") /\ Has(events, "disconnect")
    /\ events[1] = "closeEvent"
    /\ ~is_process_running /\ ~are_instruments_initialized /\ Len(file_rows) >= 1

\* C35: in every reachable state a run in progress has its hardware: the hardware
\* flag is set, the DAQ task handle and the motor controller handle are present,
\* the task is created and the motor connected.
C35_RunningImpliesActive ==
    is_process_running =>
        /\ are_instruments_initialized
        /\ nidaqmx_task # NoObject /\ motor_controller # NoObject
        /\ daq_ready /\ motor_is_connected

\* a run has just been started on active hardware after an earlier measurement
\* at a non-zero angle
C35_Witness ==
    /\ is_process_running /\ are_instruments_initialized
    /\ file_rows = <<>> /\ meas_display.angle # 0
    /\ events[1] = "start_measurement"

\* C36: in every reachable state the measurement timer is active only if a run is
\* in progress: stop_measurement, a stop by a tick and deactivate_hardware all
\* leave the timer stopped.
C36_TimerOnlyWhileRunning ==
    (measurement_timer = "active") => is_process_running

\* C37: in every reachable state the motor controller's is_moving flag is set only
\* while a run is in progress, with the Nanotec and with the Trinamic controller:
\* a failed move_continuous at start, a stop, a homing and a deactivation all
\* leave no controller with is_moving set.
C37_MovingOnlyWhileRunning ==
    (motor_controller # NoObject /\ motor_controller.is_moving) => is_process_running

\* C38: a tick in Running whose angle read failed records angle 0, does not call
\* the unwrapper and leaves previous raw angle, turn count and continuous angle as
\* they were, appends its sample and evaluates the stop conditions; and a tick
\* whose angle read succeeded is unwrapped against the previous raw angle in the
\* state, which failed ticks have not touched.
C38_AngleFailureAbsorbed ==
    /\ [][(RunningTick /\ Has(events', "error:angle")) =>
            /\ meas_display'.angle = 0
            /\ UNCHANGED unwrap_vars
            /\ ~Has(events', "unwrap_angle")
            /\ angle_data' = Append(angle_data, 0)
            /\ Len(torque_data') = Len(torque_data) + 1
            /\ Count(events', "write_measurement_data") = 1
            /\ Has(events', "stop_check")
            /\ (max_angle_value # 0 /\ Abs(meas_display'.torque) < Abs(max_torque_value))
                  => is_process_running']_vars
    /\ [][(RunningTick /\ Has(events', "unwrap_angle")) =>
            LET u == unwrap_angle(prev_angle_deg, turn_counter, angle_continuous_deg,
                                  prev_angle_deg')
            IN /\ turn_counter' = u.turn_counter
               /\ angle_continuous_deg' = u.angle_continuous_deg
               /\ meas_display'.angle = u.ret]_vars

\* the angle read of the second tick of a run has failed after the first tick had
\* taken the unwrapper one turn back, and the run goes on
C38_Witness ==
    /\ Has(events, "error:angle") /\ TickTrace(events)
    /\ is_process_running /\ Len(angle_data) = 2
    /\ turn_counter # 0 /\ prev_angle_deg # 0 /\ meas_display.angle = 0

\* C39: a run whose raw angle advances by a fixed non-zero step below the wrap
\* threshold per tick, with all reads succeeding, ends on its own: whenever a run
\* is in progress, eventually none is, with no operator action after the start.
C39_RunTerminates == is_process_running ~> ~is_process_running

\* a run turning backwards by 7 degrees per tick has been stopped by a tick at
\* the angle limit, more than a full turn from the start
C39_Witness ==
    /\ Has(events, "Max Angle erreicht") /\ TickTrace(events)
    /\ ~is_process_running /\ ramp_d = -7
    /\ angle_continuous_deg <= -360 /\ turn_counter < 0

====
